---- MODULE Spec2Model ----
(***************************************************************************)
(* count_particles.py: the three-stage segmentation pipeline               *)
(* (specimen_mask, crack_mask, count_particles) and the command-line main. *)
(*                                                                         *)
(* An image is a record [h, w, px] with px a function from the pixel       *)
(* <<y, x>> (0-based row and column) to its <<b, g, r>> bytes. A           *)
(* single-channel image is a function from pixels to 0..255. A mask (a     *)
(* uint8 array holding only 0 and 255) is the set of its 255 pixels.       *)
(***************************************************************************)
EXTENDS Integers, Sequences, FiniteSets, TLC

(***************************************************************************)
(* Array geometry and the border rules of the cv2 filters.                 *)
(***************************************************************************)
Pixels(h, w) == {<<y, x>> : y \in 0 .. h - 1, x \in 0 .. w - 1}

Shift(p, d) == <<p[1] + d[1], p[2] + d[2]>>

Inside(p, h, w) == p[1] >= 0 /\ p[1] < h /\ p[2] >= 0 /\ p[2] < w

Abs(n) == IF n < 0 THEN -n ELSE n

Max2(a, b) == IF a >= b THEN a ELSE b

Min2(a, b) == IF a <= b THEN a ELSE b

SetMax(S) == CHOOSE m \in S : \A n \in S : n <= m

SetMin(S) == CHOOSE m \in S : \A n \in S : m <= n

RECURSIVE SumSet(_, _)
\* Sum of f[v] over the finite set S.
SumSet(S, f) ==
  IF S = {} THEN 0
  ELSE LET v == CHOOSE u \in S : TRUE IN f[v] + SumSet(S \ {v}, f)

RECURSIVE borderInterpolate(_, _)
\* cv2 BORDER_REFLECT_101 (BORDER_DEFAULT): index p of an axis of length len.
borderInterpolate(p, len) ==
  IF len = 1 THEN 0
  ELSE IF p < 0 THEN borderInterpolate(-p, len)
  ELSE IF p >= len THEN borderInterpolate(2 * len - 2 - p, len)
  ELSE p

\* cvRound of the rational num / den (den > 0, num >= 0): to nearest, ties to even.
cvRound(num, den) ==
  LET q == num \div den
      r == num % den
  IN  IF 2 * r > den THEN q + 1
      ELSE IF 2 * r < den THEN q
      ELSE IF q % 2 = 0 THEN q ELSE q + 1

saturate_uchar(v) == Max2(0, Min2(255, v))

\* A function value, computed once and held as a table.
Table(f) == IF f = f THEN f ELSE f

(***************************************************************************)
(* cv2.getStructuringElement(cv2.MORPH_ELLIPSE, (k, k)): the set of        *)
(* offsets <<dy, dx>> from the anchor (the centre) that the element holds. *)
(* Row dy holds the columns |dx| <= cvRound(c * sqrt((r*r - dy*dy)/(r*r))).*)
(***************************************************************************)
EllipseHalfWidth(r, c, dy) ==
  CHOOSE d \in 0 .. c :
    /\ (d = 0 \/ (2 * d - 1) * (2 * d - 1) * r * r <= 4 * c * c * (r * r - dy * dy))
    /\ 4 * c * c * (r * r - dy * dy) < (2 * d + 1) * (2 * d + 1) * r * r

getStructuringElement(ksize) ==
  LET r == ksize \div 2
      c == ksize \div 2
  IN  {d \in {<<dy, dx>> : dy \in -r .. r, dx \in -c .. c} :
         Abs(d[2]) <= EllipseHalfWidth(r, c, d[1])}

(***************************************************************************)
(* Binary morphology on masks. cv2.dilate treats the pixels beyond the     *)
(* border as background, cv2.erode treats them as foreground               *)
(* (morphologyDefaultBorderValue); iterations apply the filter repeatedly. *)
(***************************************************************************)
\* The offsets of k that can link two pixels of an h x w image.
Reach(k, h, w) == {d \in k : Abs(d[1]) < h /\ Abs(d[2]) < w}

dilate1(X, k, h, w) ==
  LET kk == Reach(k, h, w)
  IN  {q \in Pixels(h, w) : \E d \in kk : Shift(q, <<-d[1], -d[2]>>) \in X}

erode1(X, k, h, w) ==
  LET kk == Reach(k, h, w)
  IN  {q \in X : \A d \in kk : Inside(Shift(q, d), h, w) => Shift(q, d) \in X}

RECURSIVE dilate(_, _, _, _, _)
dilate(X, k, iterations, h, w) ==
  IF iterations = 0 THEN X
  ELSE dilate(dilate1(X, k, h, w), k, iterations - 1, h, w)

RECURSIVE erode(_, _, _, _, _)
erode(X, k, iterations, h, w) ==
  IF iterations = 0 THEN X
  ELSE erode(erode1(X, k, h, w), k, iterations - 1, h, w)

\* cv2.morphologyEx(X, cv2.MORPH_CLOSE, k, iterations): dilate, then erode.
MORPH_CLOSE(X, k, iterations, h, w) ==
  erode(dilate(X, k, iterations, h, w), k, iterations, h, w)

\* cv2.morphologyEx(X, cv2.MORPH_OPEN, k, iterations): erode, then dilate.
MORPH_OPEN(X, k, iterations, h, w) ==
  dilate(erode(X, k, iterations, h, w), k, iterations, h, w)

(***************************************************************************)
(* Grey-level filters.                                                     *)
(***************************************************************************)
\* cv2.cvtColor(image, cv2.COLOR_BGR2GRAY) on 8-bit pixels (fixed point, 14 bits).
cvtColor(img) ==
  [p \in Pixels(img.h, img.w) |->
     (img.px[p][1] * 1868 + img.px[p][2] * 9617 + img.px[p][3] * 4899 + 8192)
       \div 16384]

\* cv2.GaussianBlur(gray, (5, 5), 0) on 8-bit pixels: the separable kernel
\* [1 4 6 4 1] / 16 in exact fixed point, rounded once, BORDER_REFLECT_101.
GaussianBlur(gray, h, w) ==
  LET rowpass == Table([p \in Pixels(h, w) |->
                    gray[<<p[1], borderInterpolate(p[2] - 2, w)>>]
                    + 4 * gray[<<p[1], borderInterpolate(p[2] - 1, w)>>]
                    + 6 * gray[p]
                    + 4 * gray[<<p[1], borderInterpolate(p[2] + 1, w)>>]
                    + gray[<<p[1], borderInterpolate(p[2] + 2, w)>>]])
  IN  [p \in Pixels(h, w) |->
         (rowpass[<<borderInterpolate(p[1] - 2, h), p[2]>>]
          + 4 * rowpass[<<borderInterpolate(p[1] - 1, h), p[2]>>]
          + 6 * rowpass[p]
          + 4 * rowpass[<<borderInterpolate(p[1] + 1, h), p[2]>>]
          + rowpass[<<borderInterpolate(p[1] + 2, h), p[2]>>]
          + 128) \div 256]

\* Grey-level dilation and erosion (maximum and minimum over the element,
\* the pixels beyond the border left out).
grayDilate(g, k, h, w) ==
  [p \in Pixels(h, w) |->
     SetMax({g[Shift(p, <<-d[1], -d[2]>>)] :
               d \in {e \in k : Inside(Shift(p, <<-e[1], -e[2]>>), h, w)}})]

grayErode(g, k, h, w) ==
  [p \in Pixels(h, w) |->
     SetMin({g[Shift(p, d)] : d \in {e \in k : Inside(Shift(p, e), h, w)}})]

\* cv2.morphologyEx(g, cv2.MORPH_BLACKHAT, k): closing(g) - g.
MORPH_BLACKHAT(g, k, h, w) ==
  LET closed == Table(grayErode(Table(grayDilate(g, k, h, w)), k, h, w))
  IN  [p \in Pixels(h, w) |-> closed[p] - g[p]]

(***************************************************************************)
(* Exact comparison of the Otsu criterion. The between-class variance of   *)
(* the split "values <= i" is, up to the constant factor 1/n^2,            *)
(*     (s1*n2 - s2*n1)^2 / (n1*n2)                                         *)
(* with n1, s1 the count and sum of the pixels <= i and n2, s2 those of    *)
(* the rest. The products exceed 32 bits, so they are formed on sequences  *)
(* of base-4096 digits, least significant first.                           *)
(***************************************************************************)
Limbs(n) == <<n % 4096, (n \div 4096) % 4096, n \div (4096 * 4096)>>

MulL(a, b) ==
  LET n == Len(a) + Len(b)
      raw == Table([k \in 1 .. n |->
                SumSet({i \in 1 .. Len(a) : k + 1 - i >= 1 /\ k + 1 - i <= Len(b)},
                       [i \in 1 .. Len(a) |->
                          IF k + 1 - i >= 1 /\ k + 1 - i <= Len(b)
                          THEN a[i] * b[k + 1 - i] ELSE 0])])
      carry[k \in 0 .. n] == IF k = 0 THEN 0 ELSE (raw[k] + carry[k - 1]) \div 4096
  IN  Table([k \in 1 .. n |-> (raw[k] + carry[k - 1]) % 4096])

\* a > b for two digit sequences of the same length.
GreaterL(a, b) ==
  \E k \in 1 .. Len(a) :
    /\ a[k] > b[k]
    /\ \A j \in (k + 1) .. Len(a) : a[j] = b[j]

(***************************************************************************)
(* cv2.threshold(g, 0, 255, cv2.THRESH_BINARY + cv2.THRESH_OTSU).          *)
(* getThreshVal_Otsu_8u scans i = 0..255, skips the i that leave a class   *)
(* empty, and keeps i as max_val when its between-class variance is        *)
(* strictly greater than max_sigma, the greatest met so far (0 at first);  *)
(* max_val starts at 0. THRESH_BINARY then keeps the pixels strictly above *)
(* the threshold.                                                          *)
(***************************************************************************)
OtsuStat(g, P, i) ==
  LET low  == {p \in P : g[p] <= i}
      vals == {g[p] : p \in P}
      cnt  == Table([v \in vals |-> v * Cardinality({p \in P : g[p] = v})])
      n1   == Cardinality(low)
      n2   == Cardinality(P) - n1
      s1   == SumSet({v \in vals : v <= i}, cnt)
      s2   == SumSet({v \in vals : v > i}, cnt)
      num  == Abs(s1 * n2 - s2 * n1)
  IN  [sq |-> MulL(Limbs(num), Limbs(num)), den |-> Limbs(n1 * n2)]

\* The variance of split a is strictly greater than that of split b.
OtsuGreater(a, b) == GreaterL(MulL(a.sq, b.den), MulL(b.sq, a.den))

RECURSIVE OtsuScan(_, _, _, _)
\* max_val after the scan of i = lo..hi alone (-1: no i of the range has two
\* non-empty classes). A later i replaces an earlier one only with a strictly
\* greater variance, so the scan of lo..hi is that of its two halves combined.
OtsuScan(cand, st, lo, hi) ==
  IF cand \cap (lo .. hi) = {} THEN -1
  ELSE IF lo = hi THEN lo
  ELSE LET mid   == (lo + hi) \div 2
           left  == OtsuScan(cand, st, lo, mid)
           right == OtsuScan(cand, st, mid + 1, hi)
       IN  IF left = -1 THEN right
           ELSE IF right = -1 THEN left
           ELSE IF OtsuGreater(st[right], st[left]) THEN right
           ELSE left

getThreshVal_Otsu(g, P) ==
  LET vals == {g[p] : p \in P}
      \* the i that split the pixels into two non-empty classes otherwise than
      \* i - 1 does
      cand == {i \in vals : i # SetMax(vals)}
      st   == Table([i \in cand |-> OtsuStat(g, P, i)])
      max_val == OtsuScan(cand, st, 0, 255)
  IN  IF max_val = -1 THEN 0 ELSE max_val

\* THRESH_BINARY taken as "at or above the threshold".
threshold_otsu_inclusive(g, h, w) ==
  LET t == getThreshVal_Otsu(g, Pixels(h, w))
  IN  {p \in Pixels(h, w) : g[p] >= t}

threshold_otsu(g, h, w) ==
  LET t == getThreshVal_Otsu(g, Pixels(h, w))
  IN  {p \in Pixels(h, w) : g[p] > t}

(***************************************************************************)
(* cv2.connectedComponentsWithStats(mask), default connectivity 8.         *)
(* The result is modelled as the sequence of the components (sets of       *)
(* pixels): element k is the pixel set of label k, n_labels is its length  *)
(* plus one (label 0 is the background), stats[k, CC_STAT_AREA] is the     *)
(* cardinality. The 8-way labelling scans the image in 2x2 blocks, row of  *)
(* blocks by row of blocks, and numbers the components in the order their  *)
(* first block is met.                                                     *)
(***************************************************************************)
Neighbours8 == {<<dy, dx>> : dy \in -1 .. 1, dx \in -1 .. 1} \ {<<0, 0>>}

Neighbours4 == {<<-1, 0>>, <<1, 0>>, <<0, -1>>, <<0, 1>>}

connectivity == Neighbours8

RECURSIVE Flood(_, _, _)
\* The component of X that holds the pixels of `done'; `front' are its
\* pixels whose neighbours have not been looked at yet.
Flood(X, done, front) ==
  IF front = {} THEN done
  ELSE LET new == {q \in {Shift(p, d) : p \in front, d \in connectivity} :
                     q \in X /\ q \notin done}
       IN  Flood(X, done \cup new, new)

BlockKey(p, w) == (p[1] \div 2) * ((w + 1) \div 2) + (p[2] \div 2)

RECURSIVE connectedComponents(_, _)
connectedComponents(X, w) ==
  IF X = {} THEN <<>>
  ELSE LET first == CHOOSE p \in X :
                      \A q \in X :
                        \/ BlockKey(p, w) < BlockKey(q, w)
                        \/ /\ BlockKey(p, w) = BlockKey(q, w)
                           /\ (p[1] < q[1] \/ (p[1] = q[1] /\ p[2] <= q[2]))
           comp  == Flood(X, {first}, {first})
       IN  <<comp>> \o connectedComponents(X \ comp, w)

\* 1 + np.argmax(areas): the first label of greatest area.
argmaxArea(comps) ==
  CHOOSE k \in 1 .. Len(comps) :
    /\ \A j \in 1 .. Len(comps) : Cardinality(comps[j]) <= Cardinality(comps[k])
    /\ \A j \in 1 .. (k - 1) : Cardinality(comps[j]) < Cardinality(comps[k])


(***************************************************************************)
(* cv2.createCLAHE(clipLimit, tileGridSize = (tiles, tiles)).apply(g).     *)
(* An image whose sides are not both multiples of `tiles' is extended to   *)
(* the right and below (BORDER_REFLECT_101) by tiles - (side % tiles).     *)
(* Every tile gets a lookup table from its clipped histogram; a pixel's    *)
(* value is the bilinear interpolation of the tables of the four tiles     *)
(* around it. clipLimit is given as the rational clipNum / clipDen.        *)
(***************************************************************************)
claheExtent(side, other, tiles) ==
  IF side % tiles = 0 /\ other % tiles = 0 THEN side
  ELSE side + tiles - (side % tiles)

\* tileLut[v] of tile <<ty, tx>>: the clipped, redistributed histogram summed
\* up to v and scaled by 255 / tileSizeTotal.
claheLut(g, h, w, tiles, clipNum, clipDen, ty, tx, v) ==
  LET tw    == claheExtent(w, h, tiles) \div tiles
      tileh    == claheExtent(h, w, tiles) \div tiles
      area  == tw * tileh
      limit == Max2((clipNum * area) \div (clipDen * 256), 1)
      tile  == {<<y, x>> : y \in (ty * tileh) .. (ty * tileh + tileh - 1),
                            x \in (tx * tw) .. (tx * tw + tw - 1)}
      ext   == [q \in tile |->
                  g[<<IF q[1] >= h THEN borderInterpolate(q[1], h) ELSE q[1],
                      IF q[2] >= w THEN borderInterpolate(q[2], w) ELSE q[2]>>]]
      vals  == {ext[q] : q \in tile}
      hist  == [u \in vals |-> Cardinality({q \in tile : ext[q] = u})]
      clipped  == SumSet(vals, [u \in vals |-> Max2(hist[u] - limit, 0)])
      redistBatch == clipped \div 256
      residual == clipped - redistBatch * 256
      residualStep == IF residual = 0 THEN 1 ELSE Max2(256 \div residual, 1)
      sum   == SumSet({u \in vals : u <= v}, [u \in vals |-> Min2(hist[u], limit)])
               + redistBatch * (v + 1)
               + (IF residual = 0 THEN 0 ELSE Min2(residual, v \div residualStep + 1))
  IN  saturate_uchar(cvRound(sum * 255, area))

CLAHE_apply(g, h, w, tiles, clipNum, clipDen) ==
  LET tw == claheExtent(w, h, tiles) \div tiles
      tileh == claheExtent(h, w, tiles) \div tiles
      \* txf = x / tw - 1/2 = (2x - tw) / (2 tw); tx1 = floor(txf), xa = txf - tx1
      tx1(x) == IF 2 * x - tw >= 0 THEN (2 * x - tw) \div (2 * tw) ELSE -1
      xa(x)  == (2 * x - tw) - tx1(x) * 2 * tw
      ty1(y) == IF 2 * y - tileh >= 0 THEN (2 * y - tileh) \div (2 * tileh) ELSE -1
      ya(y)  == (2 * y - tileh) - ty1(y) * 2 * tileh
      lut(ty, tx, v) == claheLut(g, h, w, tiles, clipNum, clipDen,
                                 Min2(Max2(ty, 0), tiles - 1),
                                 Min2(Max2(tx, 0), tiles - 1), v)
  IN  [p \in Pixels(h, w) |->
         LET y == p[1]
             x == p[2]
             v == g[p]
             top == lut(ty1(y), tx1(x), v) * (2 * tw - xa(x))
                    + lut(ty1(y), tx1(x) + 1, v) * xa(x)
             bot == lut(ty1(y) + 1, tx1(x), v) * (2 * tw - xa(x))
                    + lut(ty1(y) + 1, tx1(x) + 1, v) * xa(x)
         IN  saturate_uchar(cvRound(top * (2 * tileh - ya(y)) + bot * ya(y),
                                    4 * tw * tileh))]

(***************************************************************************)
(* The structuring elements the program asks for.                          *)
(***************************************************************************)
ELLIPSE_9x9 == getStructuringElement(9)

ELLIPSE_11x11 == getStructuringElement(11)

ELLIPSE_3x3 == getStructuringElement(3)

(***************************************************************************)
(* The inputs. A run is one command line (--min-area, --save-overlay) and  *)
(* one file: NoImage is a file cv2.imread cannot decode (it returns None). *)
(* The readable files are synthetic photographs:                           *)
(*   strips  1 x StripW: a bright run, with or without a one-pixel dark    *)
(*           line inside it, on a dark ground (and the all-dark strip);    *)
(*   grids   GridN x GridN: at most two bright pixels on a dark ground, or *)
(*           at most two dark pixels on a bright ground, one of them on    *)
(*           the main diagonal;                                            *)
(*   specks  SpeckH x SpeckW: one faint pixel near the middle of a dark    *)
(*           frame;                                                        *)
(*   plates  PlateN x PlateN: uniformly black, uniformly white.            *)
(***************************************************************************)
StripW == 12

GridN == 4

SpeckH == 9

SpeckW == 16

PlateN == 19

MaxMinArea == 4

\* parser.add_argument("--min-area", type=int, default=350)
DefaultMinArea == 350

BLACK == <<0, 0, 0>>

WHITE == <<255, 255, 255>>

FAINT == <<5, 5, 5>>

NoImage == [h |-> 0, w |-> 0, px |-> <<>>]

Picture(h, w, bright, ink) ==
  [h |-> h, w |-> w,
   px |-> Table([p \in Pixels(h, w) |-> IF p \in bright THEN ink ELSE BLACK])]

\* The run a .. b (empty when a > b), less the pixel c (c = -1: no line).
StripImages ==
  {Picture(1, StripW, {<<0, x>> : x \in (r[1] .. r[2]) \ {r[3]}}, WHITE) :
     r \in {<<a, b, c>> : a \in 0 .. StripW - 1, b \in 0 .. StripW - 1,
                          c \in -1 .. StripW - 1}}

GridImages ==
  LET all  == Pixels(GridN, GridN)
      dots == {{}} \cup {{<<i, i>>, q} : i \in 0 .. GridN - 1, q \in all}
  IN  {Picture(GridN, GridN, d, WHITE) : d \in dots}
      \cup {Picture(GridN, GridN, all \ d, WHITE) : d \in dots}

SpeckImages ==
  {Picture(SpeckH, SpeckW, {<<y, x>>}, FAINT) :
     y \in (SpeckH \div 2 - 1) .. (SpeckH \div 2 + 1),
     x \in (SpeckW \div 2 - 1) .. (SpeckW \div 2)}

PlateImages ==
  {Picture(PlateN, PlateN, {}, WHITE),
   Picture(PlateN, PlateN, Pixels(PlateN, PlateN), WHITE)}

Images == StripImages \cup GridImages \cup SpeckImages \cup PlateImages

Args ==
  [min_area : (-1 .. MaxMinArea) \cup {DefaultMinArea}, save_overlay : BOOLEAN]

(***************************************************************************)
(* specimen_mask(image)                                                    *)
(***************************************************************************)
\* gray, blur, th: the Otsu mask of the blurred intensity.
specimen_threshold(img) ==
  LET gray == Table(cvtColor(img))
      blur == Table(GaussianBlur(gray, img.h, img.w))
  IN  threshold_otsu(blur, img.h, img.w)

\* The mask of the component `largest', closed twice with the 9x9 ellipse.
specimen_close(comps, h, w) ==
  MORPH_CLOSE(comps[argmaxArea(comps)], ELLIPSE_9x9, 2, h, w)

(***************************************************************************)
(* crack_mask(image, specimen)                                             *)
(***************************************************************************)
\* gray, clahe, blackhat, cracks: the Otsu mask of the black-hat response.
crack_threshold(img) ==
  LET gray  == Table(cvtColor(img))
      clahe == Table(CLAHE_apply(gray, img.h, img.w, 8, 2, 1))
      blackhat == Table(MORPH_BLACKHAT(clahe, ELLIPSE_11x11, img.h, img.w))
  IN  threshold_otsu(blackhat, img.h, img.w)

\* The black-hat mask, not cut to the specimen.
crack_not_intersected(crk, spec) == crk

\* cv2.bitwise_and(cracks, specimen)
crack_intersect(crk, spec) == crk \cap spec

\* Thicken and bridge: one dilation, then a closing of two iterations.
crack_thicken(crk, h, w) ==
  MORPH_CLOSE(dilate(crk, ELLIPSE_3x3, 1, h, w), ELLIPSE_3x3, 2, h, w)

(***************************************************************************)
(* The two Otsu masks of every picture of Images, computed once. The       *)
(* pipeline is a pure function of the image, so a run reads its masks here.*)
(***************************************************************************)
ThresholdTable ==
  Table([img \in Images |->
           [th |-> specimen_threshold(img), cracks |-> crack_threshold(img)]])

specimen_threshold_of(img) ==
  IF img \in Images THEN ThresholdTable[img].th ELSE specimen_threshold(img)

crack_threshold_of(img) ==
  IF img \in Images THEN ThresholdTable[img].cracks ELSE crack_threshold(img)

(***************************************************************************)
(* count_particles(image, min_area)                                        *)
(***************************************************************************)
\* cv2.bitwise_and(specimen, cracks): the bitwise_not forgotten.
particle_and(spec, crk) == spec \cap crk

\* cv2.bitwise_and(specimen, cv2.bitwise_not(cracks))
particle_subtract(spec, crk) == spec \ crk

\* The candidate mask labelled as it is, without the opening.
particle_not_opened(part, h, w) == part

particle_open(part, h, w) == MORPH_OPEN(part, ELLIPSE_3x3, 1, h, w)

\* stats[label, cv2.CC_STAT_AREA]
area_of(comps, lbl) == Cardinality(comps[lbl])

\* The comparison turned round, and the comparison with `<='.
too_small_reversed(area, min_area) == area > min_area

too_small_or_equal(area, min_area) == area <= min_area

\* `area < min_area': the component is passed over.
too_small(area, min_area) == area < min_area

\* int(ys.mean()), int(xs.mean()) of the pixels of a component.
centroid(comp) ==
  LET ys == {p[1] : p \in comp}
      xs == {p[2] : p \in comp}
      sy == SumSet(ys, [y \in ys |-> y * Cardinality({p \in comp : p[1] = y})])
      sx == SumSet(xs, [x \in xs |-> x * Cardinality({p \in comp : p[2] = x})])
  IN  <<sy \div Cardinality(comp), sx \div Cardinality(comp)>>

\* cv2.putText(overlay, str(count), (cx - 8, cy + 5), ...): the text and where.
putText(ovl, count_, comp) ==
  Append(ovl, [text |-> count_,
               org  |-> <<centroid(comp)[2] - 8, centroid(comp)[1] + 5>>,
               at   |-> centroid(comp)])

(***************************************************************************)
(* The state of one run of main().                                         *)
(***************************************************************************)
VARIABLES
  pc,           \* where the run is
  file,         \* what cv2.imread decodes from the path (NoImage: nothing)
  args,         \* the parsed command line
  image,        \* main: image
  th,           \* specimen_mask: th
  n_labels,     \* n_labels of the last connectedComponentsWithStats
  labels,       \* its components, by label (label k is labels[k])
  specimen,     \* count_particles: specimen
  cracks,       \* crack_mask: cracks; count_particles: cracks
  particles,    \* count_particles: particles
  label,        \* the loop variable
  count,        \* count_particles: count
  overlay,      \* the texts drawn on the copy of the image
  stdout,       \* what main printed
  stderr,       \* the message of SystemExit
  overlay_file, \* what cv2.imwrite wrote (<<>>: no file)
  exit_status   \* -1 while the run lasts

vars == <<pc, file, args, image, th, n_labels, labels, specimen, cracks,
          particles, label, count, overlay, stdout, stderr, overlay_file,
          exit_status>>

InitWith(files, arguments) ==
  /\ pc = "main"
  /\ file \in files
  /\ args \in arguments
  /\ image = NoImage
  /\ th = {}
  /\ n_labels = 0
  /\ labels = <<>>
  /\ specimen = {}
  /\ cracks = {}
  /\ particles = {}
  /\ label = 0
  /\ count = 0
  /\ overlay = <<>>
  /\ stdout = <<>>
  /\ stderr = <<>>
  /\ overlay_file = <<>>
  /\ exit_status = -1

Init == InitWith(Images \cup {NoImage}, Args)

\* The message printed and main left by `return' where SystemExit is raised.
ImreadFailsReturns ==
  /\ pc = "main"
  /\ file = NoImage
  /\ stderr' = <<"Could not read image">>
  /\ exit_status' = 0
  /\ pc' = "exited"
  /\ UNCHANGED <<file, args, image, th, n_labels, labels, specimen, cracks,
                 particles, label, count, overlay, stdout, overlay_file>>

\* main: image = cv2.imread(...); if image is None: raise SystemExit(message)
ImreadFails ==
  /\ pc = "main"
  /\ file = NoImage
  /\ stderr' = <<"Could not read image">>
  /\ exit_status' = 1
  /\ pc' = "exited"
  /\ UNCHANGED <<file, args, image, th, n_labels, labels, specimen, cracks,
                 particles, label, count, overlay, stdout, overlay_file>>

\* main: the image is read and count_particles(image, args.min_area) is called.
Imread ==
  /\ pc = "main"
  /\ file # NoImage
  /\ image' = file
  /\ pc' = "specimen_mask"
  /\ UNCHANGED <<file, args, th, n_labels, labels, specimen, cracks, particles,
                 label, count, overlay, stdout, stderr, overlay_file,
                 exit_status>>

\* specimen_mask: threshold, label; with no component, return th.
SpecimenLabel ==
  /\ pc = "specimen_mask"
  /\ th' = specimen_threshold_of(image)
  /\ labels' = connectedComponents(th', image.w)
  /\ n_labels' = Len(labels') + 1
  /\ IF n_labels' <= 1
     THEN specimen' = th' /\ pc' = "crack_mask"
     ELSE specimen' = specimen /\ pc' = "specimen_close"
  /\ UNCHANGED <<file, args, image, cracks, particles, label, count, overlay,
                 stdout, stderr, overlay_file, exit_status>>

\* specimen_mask: keep the largest component, fill small holes, return.
SpecimenClose ==
  /\ pc = "specimen_close"
  /\ specimen' = specimen_close(labels, image.h, image.w)
  /\ pc' = "crack_mask"
  /\ UNCHANGED <<file, args, image, th, n_labels, labels, cracks, particles,
                 label, count, overlay, stdout, stderr, overlay_file,
                 exit_status>>

\* crack_mask: black-hat threshold, intersected with the specimen.
CrackThreshold ==
  /\ pc = "crack_mask"
  /\ cracks' = crack_intersect(crack_threshold_of(image), specimen)
  /\ pc' = "crack_thicken"
  /\ UNCHANGED <<file, args, image, th, n_labels, labels, specimen, particles,
                 label, count, overlay, stdout, stderr, overlay_file,
                 exit_status>>

\* crack_mask: dilate, close, return.
CrackThicken ==
  /\ pc = "crack_thicken"
  /\ cracks' = crack_thicken(cracks, image.h, image.w)
  /\ pc' = "subtract"
  /\ UNCHANGED <<file, args, image, th, n_labels, labels, specimen, particles,
                 label, count, overlay, stdout, stderr, overlay_file,
                 exit_status>>

\* count_particles: particles = specimen AND NOT cracks
Subtract ==
  /\ pc = "subtract"
  /\ particles' = particle_subtract(specimen, cracks)
  /\ pc' = "open"
  /\ UNCHANGED <<file, args, image, th, n_labels, labels, specimen, cracks,
                 label, count, overlay, stdout, stderr, overlay_file,
                 exit_status>>

\* The counter started at the first rank instead of at zero.
OpenAndLabelCountFromOne ==
  /\ pc = "open"
  /\ particles' = particle_open(particles, image.h, image.w)
  /\ labels' = connectedComponents(particles', image.w)
  /\ n_labels' = Len(labels') + 1
  /\ count' = 1
  /\ overlay' = <<>>
  /\ label' = 1
  /\ pc' = "loop"
  /\ UNCHANGED <<file, args, image, th, specimen, cracks, stdout, stderr,
                 overlay_file, exit_status>>

\* count_particles: the opening, the labelling, count = 0, overlay = image.copy()
OpenAndLabel ==
  /\ pc = "open"
  /\ particles' = particle_open(particles, image.h, image.w)
  /\ labels' = connectedComponents(particles', image.w)
  /\ n_labels' = Len(labels') + 1
  /\ count' = 0
  /\ overlay' = <<>>
  /\ label' = 1
  /\ pc' = "loop"
  /\ UNCHANGED <<file, args, image, th, specimen, cracks, stdout, stderr,
                 overlay_file, exit_status>>

\* for label in range(1, n_labels): area < min_area, continue
LoopSkip ==
  /\ pc = "loop"
  /\ label < n_labels
  /\ too_small(area_of(labels, label), args.min_area)
  /\ label' = label + 1
  /\ UNCHANGED <<pc, file, args, image, th, n_labels, labels, specimen, cracks,
                 particles, count, overlay, stdout, stderr, overlay_file,
                 exit_status>>

\* for label in range(1, n_labels): count += 1 and the rank is drawn
LoopCount ==
  /\ pc = "loop"
  /\ label < n_labels
  /\ ~ too_small(area_of(labels, label), args.min_area)
  /\ count' = count + 1
  /\ overlay' = putText(overlay, count', labels[label])
  /\ label' = label + 1
  /\ UNCHANGED <<pc, file, args, image, th, n_labels, labels, specimen, cracks,
                 particles, stdout, stderr, overlay_file, exit_status>>

\* return count, overlay; main: print(count)
ReturnAndPrint ==
  /\ pc = "loop"
  /\ label >= n_labels
  /\ stdout' = Append(stdout, count)
  /\ pc' = "save_overlay"
  /\ UNCHANGED <<file, args, image, th, n_labels, labels, specimen, cracks,
                 particles, label, count, overlay, stderr, overlay_file,
                 exit_status>>

\* main: if args.save_overlay: cv2.imwrite(...); then main returns
SaveOverlay ==
  /\ pc = "save_overlay"
  /\ args.save_overlay
  /\ overlay_file' = <<[image |-> image, texts |-> overlay]>>
  /\ exit_status' = 0
  /\ pc' = "exited"
  /\ UNCHANGED <<file, args, image, th, n_labels, labels, specimen, cracks,
                 particles, label, count, overlay, stdout, stderr>>

NoOverlay ==
  /\ pc = "save_overlay"
  /\ ~ args.save_overlay
  /\ exit_status' = 0
  /\ pc' = "exited"
  /\ UNCHANGED <<file, args, image, th, n_labels, labels, specimen, cracks,
                 particles, label, count, overlay, stdout, stderr, overlay_file>>

Next ==
  \/ ImreadFails
  \/ Imread
  \/ SpecimenLabel
  \/ SpecimenClose
  \/ CrackThreshold
  \/ CrackThicken
  \/ Subtract
  \/ OpenAndLabel
  \/ LoopSkip
  \/ LoopCount
  \/ ReturnAndPrint
  \/ SaveOverlay
  \/ NoOverlay

Spec == Init /\ [][Next]_vars

(***************************************************************************)
(* What the claims are stated with.                                        *)
(***************************************************************************)
MinAreas == (-1 .. MaxMinArea) \cup {DefaultMinArea}

\* specimen_mask has returned and crack_mask has not begun.
SpecimenReturned == pc = "crack_mask"

\* count_particles has returned its count.
Returned == pc = "save_overlay" \/ (pc = "exited" /\ exit_status = 0)

\* The filtering loop is running, or is over.
Counting == pc = "loop" \/ Returned

\* `labels' holds the labelling of th (first stage) or of particles (second).
ThLabelled == pc \in {"specimen_close", "crack_mask", "crack_thicken", "subtract", "open"}

Uniform(img, v) == \A p \in DOMAIN img.px : img.px[p] = v

AreasAtLeast(comps, m) == {l \in 1 .. Len(comps) : Cardinality(comps[l]) >= m}

RECURSIVE Linked(_, _, _, _)
\* The pixels of X reached from `done' by steps in `nbrs'.
Linked(X, done, front, nbrs) ==
  IF front = {} THEN done
  ELSE LET new == {q \in {Shift(p, d) : p \in front, d \in nbrs} :
                     q \in X /\ q \notin done}
       IN  Linked(X, done \cup new, new, nbrs)

\* Every component of comps is in one piece under the neighbourhood nbrs.
InOnePiece(comps, nbrs) ==
  \A l \in 1 .. Len(comps) :
    LET p == CHOOSE q \in comps[l] : TRUE
    IN  Linked(comps[l], {p}, {p}, nbrs) = comps[l]

\* Two pixels of the mask that touch under nbrs carry the same label.
TouchingShareLabel(mask, comps, nbrs) ==
  \A p \in mask : \A d \in nbrs :
    Shift(p, d) \in mask =>
      \E l \in 1 .. Len(comps) : p \in comps[l] /\ Shift(p, d) \in comps[l]

\* The count the loop gives for the components comps and the threshold m.
CountFor(comps, m) ==
  Cardinality({l \in 1 .. Len(comps) : ~ too_small(area_of(comps, l), m)})

\* The subtraction result of the run, and its components.
Subtracted == particle_subtract(specimen, cracks)

(***************************************************************************)
(* C1                                                                      *)
(***************************************************************************)
\* C1, as stated: the crack mask that crack_mask returns (after the dilation
\* and the closing) has no pixel outside the specimen mask.
C1_ReturnedCracksInSpecimen == pc = "subtract" => cracks \subseteq specimen

\* C1, amended: the crack mask is inside the specimen mask right after the
\* intersection; the returned mask contains that intersected mask (and may
\* reach outside the specimen).
C1_IntersectedCracksInSpecimen ==
  /\ pc = "crack_thicken" => cracks \subseteq specimen
  /\ pc = "subtract" =>
       (crack_threshold_of(image) \cap specimen) \subseteq cracks

C1_Witness ==
  /\ pc = "subtract"
  /\ (crack_threshold_of(image) \cap specimen) # {}
  /\ ~ (cracks \subseteq specimen)

(***************************************************************************)
(* C2                                                                      *)
(***************************************************************************)
\* C2: at every iteration of the loop and at return, 0 <= count <= n_labels - 1,
\* the number of components of the particle mask that was labelled.
C2_CountWithinComponents ==
  Counting =>
    /\ 0 <= count
    /\ count <= n_labels - 1
    /\ n_labels - 1 = Len(connectedComponents(particles, image.w))

C2_Witness ==
  /\ pc = "save_overlay"
  /\ n_labels = 3
  /\ count = 1

(***************************************************************************)
(* C3                                                                      *)
(***************************************************************************)
\* C3: for one image, the count returned never increases with min_area. The
\* components that are filtered do not depend on min_area, and the count
\* returned is the loop's count for them; for any m1 <= m2 the count for m2
\* is at most the count for m1.
C3_CountDecreasesWithMinArea ==
  Returned =>
    /\ labels = connectedComponents(particles, image.w)
    /\ count = CountFor(labels, args.min_area)
    /\ \A m1 \in MinAreas : \A m2 \in MinAreas :
         m1 <= m2 => CountFor(labels, m2) <= CountFor(labels, m1)

C3_Witness ==
  /\ Returned
  /\ count = 2
  /\ \E m \in MinAreas : m > args.min_area /\ CountFor(labels, m) = 1
  /\ \E m \in MinAreas : m > args.min_area /\ CountFor(labels, m) = 0

(***************************************************************************)
(* C4                                                                      *)
(***************************************************************************)
\* C4, as stated: when the thresholding gives at least one component, the mask
\* specimen_mask returns has exactly one connected region; with none, th is
\* returned as it is.
C4_OneRegion ==
  SpecimenReturned =>
    IF n_labels <= 1 THEN specimen = th
    ELSE Len(connectedComponents(specimen, image.w)) = 1

C6_UniformCountsZero ==
  (Returned /\ (Uniform(image, BLACK) \/ Uniform(image, WHITE))
     /\ args.min_area = DefaultMinArea) =>
    /\ specimen \in {{}, Pixels(image.h, image.w)}
    /\ count = 0

\* C6, amended: a uniformly black image gives the empty specimen mask and the
\* count 0; a uniformly white image gives the whole image as specimen mask,
\* and the count 1 when the image has at least min_area pixels, else 0.
C6_UniformBlackZeroWhiteOne ==
  Returned =>
    /\ Uniform(image, BLACK) => (specimen = {} /\ count = 0)
    /\ Uniform(image, WHITE) =>
         /\ specimen = Pixels(image.h, image.w)
         /\ count = IF image.h * image.w >= args.min_area THEN 1 ELSE 0

C6_Witness ==
  /\ Returned
  /\ Uniform(image, WHITE)
  /\ args.min_area = DefaultMinArea
  /\ count = 1

(***************************************************************************)
(* C7                                                                      *)
(***************************************************************************)
\* C7, as stated: when the subtraction result has exactly two components, the
\* count is the number of them with an area of at least min_area (2, 1 or 0),
\* the opening notwithstanding.
C7_TwoComponentsCountedByArea ==
  Returned =>
    LET sub == connectedComponents(Subtracted, image.w)
    IN  Len(sub) = 2 => count = Cardinality(AreasAtLeast(sub, args.min_area))

\* C7, amended: the count is the number of components of the OPENED
\* subtraction result with an area of at least min_area; a component of the
\* subtraction result that the opening leaves as it is, is counted exactly
\* when its area is at least min_area.
C7_CountedAfterOpening ==
  Returned =>
    LET opened == MORPH_OPEN(Subtracted, ELLIPSE_3x3, 1, image.h, image.w)
        comps  == connectedComponents(opened, image.w)
    IN  /\ particles = opened
        /\ count = Cardinality(AreasAtLeast(comps, args.min_area))

C7_Witness ==
  /\ Returned
  /\ Len(connectedComponents(Subtracted, image.w)) = 2
  /\ count # Cardinality(AreasAtLeast(connectedComponents(Subtracted, image.w),
                                      args.min_area))

(***************************************************************************)
(* C8                                                                      *)
(***************************************************************************)
\* C8: the loop visits the labels 1, 2, ... in ascending order; a component is
\* passed over exactly when its area is < min_area (area = min_area counts);
\* the texts drawn are 1, 2, ..., count, each on the next counted component in
\* label order; the count returned is the number of counted components.
C8_RanksInLabelOrder ==
  Counting =>
    LET counted == {l \in 1 .. (label - 1) :
                      Cardinality(labels[l]) >= args.min_area}
    IN  /\ label \in 1 .. n_labels
        /\ Returned => label = n_labels
        /\ count = Cardinality(counted)
        /\ Len(overlay) = count
        /\ \A i \in 1 .. count :
             /\ overlay[i].text = i
             /\ \E l \in counted :
                  /\ Cardinality({j \in counted : j <= l}) = i
                  /\ overlay[i].at = centroid(labels[l])

C8_Witness ==
  /\ pc = "save_overlay"
  /\ n_labels = 3
  /\ Cardinality(labels[1]) < args.min_area
  /\ Cardinality(labels[2]) = args.min_area
  /\ count = 1

(***************************************************************************)
(* C9                                                                      *)
(***************************************************************************)
\* C9, as stated: in both labellings the pixels of one label are linked by
\* steps across an edge (4-neighbourhood).
C9_EdgeConnected ==
  (ThLabelled \/ Counting) => InOnePiece(labels, Neighbours4)

\* C9, amended: in both labellings two foreground pixels that touch by an
\* edge or by a corner (8-neighbourhood) carry the same label, and the pixels
\* of one label are linked by such steps.
C9_EdgeOrCornerConnected ==
  /\ ThLabelled =>
       /\ TouchingShareLabel(th, labels, Neighbours8)
       /\ InOnePiece(labels, Neighbours8)
  /\ Counting =>
       /\ TouchingShareLabel(particles, labels, Neighbours8)
       /\ InOnePiece(labels, Neighbours8)

C9_Witness ==
  /\ pc = "specimen_close"
  /\ ~ InOnePiece(labels, Neighbours4)

(***************************************************************************)
(* C10                                                                     *)
(***************************************************************************)
\* C10: every pixel of the mask that is labelled in count_particles, so every
\* pixel of every component, is in the specimen mask and not in the crack
\* mask.
C10_LabelledInSpecimenOffCracks ==
  Counting =>
    /\ particles \subseteq specimen
    /\ particles \cap cracks = {}
    /\ \A l \in 1 .. Len(labels) : labels[l] \subseteq particles

C10_Witness ==
  /\ Returned
  /\ count >= 1
  /\ specimen \cap cracks # {}

====
